---------------------------- MODULE Spec2Model ----------------------------
(***************************************************************************)
(* Model of the job handlers of flynn-controller (jobs.go): runJob with    *)
(* its attach protocol and duplex proxy, connectHostMiddleware wrapping    *)
(* killJob and jobLog, the SSE log writer, parseJobID and jobList.         *)
(*                                                                         *)
(* Strings that the code inspects character by character (composite job   *)
(* IDs) are sequences of one-character strings.  Sessions returned by      *)
(* DialHost, Attach and Hijack are heap objects: entries of the sequence   *)
(* sess, referred to by index (0 is nil).                                  *)
(***************************************************************************)
EXTENDS Integers, Sequences, FiniteSets, TLC

\* ------------------------------------------------------------------ bounds
\* Bytes each peer (caller, job) may send on one interactive session.
MaxBytes == 1
\* Longest job ID string enumerated for parseJobID.
MaxLen == 4
\* Write calls each SSE writer task issues.
MaxWrites == 2
\* Jobs on one host of the snapshot jobList reads.
MaxJobs == 1

\* Capacity of the done channel: make(chan struct{}, 2).
DoneCap == 2

\* ------------------------------------------------------------- parseJobID
Chars == {"a", "b", "-"}

RECURSIVE IndexOf(_, _, _)
\* strings.Index: position of the first c in s at or after i, 0 when none.
IndexOf(s, c, i) ==
    IF i > Len(s) THEN 0
    ELSE IF s[i] = c THEN i
    ELSE IndexOf(s, c, i + 1)

\* strings.SplitN(s, "-", 2): at most two parts, cut at the first "-".
SplitN2(s) ==
    LET k == IndexOf(s, "-", 1)
    IN  IF k = 0 THEN <<s>>
        ELSE <<SubSeq(s, 1, k - 1), SubSeq(s, k + 1, Len(s))>>

\* parseJobID with the emptiness test dropped from the host part.
parseJobID_NoHostCheck(id) ==
    LET p == SplitN2(id)
    IN  IF Len(p) # 2 \/ p[2] = <<>> THEN << <<>>, <<>> >>
        ELSE <<p[1], p[2]>>

\* parseJobID with the emptiness test dropped from the job part.
parseJobID_NoJobCheck(id) ==
    LET p == SplitN2(id)
    IN  IF Len(p) # 2 \/ p[1] = <<>> THEN << <<>>, <<>> >>
        ELSE <<p[1], p[2]>>

\* parseJobID(params): (hostID, jobID), or ("", "").
parseJobID(id) ==
    LET p == SplitN2(id)
    IN  IF Len(p) # 2 \/ p[1] = <<>> \/ p[2] = <<>> THEN << <<>>, <<>> >>
        ELSE <<p[1], p[2]>>

\* h + "-" + j
Composite(h, j) == h \o <<"-">> \o j

\* ------------------------------------------------------------------ state
Reqs == {1, 2}
HostA == <<"a">>
HostB == <<"b">>
HostIDs == {HostA, HostB}
\* cluster.RandomJobID(""): the n-th fresh job ID.
RandomJobID(n) == IF n = 1 THEN <<"1">> ELSE <<"2">>
NoStr == <<>>
\* The jobs_id path parameters of kill and log requests.
ParamIDs == { Composite(HostA, <<"1">>), Composite(HostB, <<"1">>),
              <<"a", "b">>, <<"-", "1">>, <<"a", "-">> }
\* What an attached log stream yields before its end: the stream of each chunk.
LogInputs == { <<>>, <<"stdout">>, <<"stdout", "stderr">> }

VARIABLES
    req,      \* per request: the handler's position and locals
    sess,     \* heap of sessions: host dials, attach channels, hijacked transports
    hosts,    \* the cluster's host set, as ListHosts returns it
    jobsOn,   \* host -> jobs submitted to it and not stopped
    nextJob,  \* how many job IDs RandomJobID has drawn
    pin,      \* parseJobID harness: the input string
    pout,     \* parseJobID harness: the result, or <<>> before the call
    mu,       \* sseLogWriter.Mutex: "free", or the handle whose Write holds it
    sink,     \* sseLogWriter.Writer: the parts written, in order
    wr,       \* per stream handle: its writer task's position, calls and results
    lhosts,   \* jobList harness: the hosts ListHosts returns, in range order
    lres      \* jobList harness: the response, or <<>> before the call

reqVars == <<req, sess, hosts, jobsOn, nextJob>>
parseVars == <<pin, pout>>
sseVars == <<mu, sink, wr>>
listVars == <<lhosts, lres>>
vars == <<req, sess, hosts, jobsOn, nextJob, pin, pout, mu, sink, wr, lhosts, lres>>

IdleReq ==
    [ kind |-> "none", pc |-> "idle", attach |-> FALSE, sse |-> FALSE,
      rawID |-> NoStr, params |-> NoStr, snap |-> {},
      hostID |-> NoStr, jobID |-> NoStr,
      client |-> 0, attachConn |-> 0, conn |-> 0, stream |-> 0,
      defers |-> <<>>, status |-> "none", err |-> "", body |-> <<>>,
      panicked |-> FALSE, calls |-> <<>>,
      cpUp |-> "none", cpDown |-> "none", done |-> 0,
      copyErr |-> FALSE ]

\* A session object as DialHost, Attach or Hijack returns it.
NewSess(k, r, h, j, data) ==
    [ kind |-> k, owner |-> r, host |-> h, job |-> j,
      closes |-> 0, users |-> {r},
      wrClosed |-> FALSE,  \* the handler half-closed it (CloseWrite)
      peerEOF |-> FALSE,   \* the peer will send no more
      sent |-> 0,          \* bytes the peer has sent
      inbuf |-> 0,         \* of those, bytes not yet read by the handler
      out |-> 0,           \* bytes the handler has written to the peer
      lost |-> 0,          \* bytes read from it and dropped by a failed write
      late |-> 0,          \* bytes the peer sent after the handler's half-close
      data |-> data,       \* log stream: the chunks still to be read
      yield |-> data ]     \* log stream: every chunk it yields before its end

Call(op, ok, h, j, s) == [op |-> op, ok |-> ok, host |-> h, job |-> j, sid |-> s]

ReqInit ==
    /\ req = [r \in Reqs |-> IdleReq]
    /\ sess = <<>>
    /\ hosts \in SUBSET HostIDs
    /\ jobsOn = [h \in HostIDs |-> {}]
    /\ nextJob = 0

ReqIdle ==
    /\ req = [r \in Reqs |-> IdleReq]
    /\ sess = <<>>
    /\ hosts = {}
    /\ jobsOn = [h \in HostIDs |-> {}]
    /\ nextJob = 0

ParseIdle == pin = <<>> /\ pout = <<>>

ListIdle == lhosts = <<>> /\ lres = <<>>

SSEIdle ==
    /\ mu = "free"
    /\ sink = <<>>
    /\ wr = <<>>

\* ------------------------------------------------------- request handlers
\* The request handlers leave the parseJobID harness and the SSE writer alone.
ReqFrame == UNCHANGED <<pin, pout, mu, sink, wr, lhosts, lres>>

\* A request arrives: the router picks the handler chain from the route.
\* Requests are served one after the other here: the handlers share no
\* variable, only the cluster (jobsOn) and the session heap.
Begin(r) ==
    /\ req[r].pc = "idle"
    /\ \A q \in Reqs : q < r => req[q].pc = "done"
    /\ \/ \E a \in BOOLEAN :
            req' = [req EXCEPT ![r].kind = "run", ![r].attach = a,
                               ![r].pc = "getRelease"]
       \/ \E k \in {"kill", "log"}, id \in ParamIDs, e \in BOOLEAN :
            /\ (k = "kill" => e = FALSE)
            /\ req' = [req EXCEPT ![r].kind = k, ![r].params = id,
                                  ![r].rawID = id,
                                  ![r].sse = e, ![r].pc = "mwParse"]
    /\ UNCHANGED <<sess, hosts, jobsOn, nextJob>> /\ ReqFrame

\* r.Error(err); return -- the deferred calls run next.
Fail(r, msg, call) ==
    [req EXCEPT ![r].status = "error", ![r].err = msg, ![r].pc = "ret",
                ![r].calls = Append(@, call)]

\* runJob with the job submitted before the attach is requested.
RunFlow_SubmitFirst(p, a) ==
    CASE p = "getRelease" -> "getArtifact"
      [] p = "getArtifact" -> "dockerImage"
      [] p = "dockerImage" -> "listHosts"
      [] p = "listHosts" -> "addJobs"
      [] p = "addJobs" -> IF a THEN "dial" ELSE "json"
      [] p = "dial" -> "attachReq"
      [] p = "attachReq" -> "attachWait"
      [] p = "attachWait" -> "switch"
      [] p = "switch" -> "hijack"
      [] p = "hijack" -> "spawn"
      [] p = "spawn" -> "join1"
      [] OTHER -> "ret"

\* runJob with the protocol switch sent before the attach-ready wait.
RunFlow_SwitchEarly(p, a) ==
    CASE p = "getRelease" -> "getArtifact"
      [] p = "getArtifact" -> "dockerImage"
      [] p = "dockerImage" -> "listHosts"
      [] p = "listHosts" -> IF a THEN "dial" ELSE "addJobs"
      [] p = "dial" -> "attachReq"
      [] p = "attachReq" -> "addJobs"
      [] p = "addJobs" -> IF a THEN "switch" ELSE "json"
      [] p = "switch" -> "attachWait"
      [] p = "attachWait" -> "hijack"
      [] p = "hijack" -> "spawn"
      [] p = "spawn" -> "join1"
      [] OTHER -> "ret"

\* runJob with the hosts listed before the artifact is resolved.
RunFlow_ListFirst(p, a) ==
    CASE p = "getRelease" -> "listHosts"
      [] p = "listHosts" -> "getArtifact"
      [] p = "getArtifact" -> "dockerImage"
      [] p = "dockerImage" -> IF a THEN "dial" ELSE "addJobs"
      [] p = "dial" -> "attachReq"
      [] p = "attachReq" -> "addJobs"
      [] p = "addJobs" -> IF a THEN "attachWait" ELSE "json"
      [] p = "attachWait" -> "switch"
      [] p = "switch" -> "hijack"
      [] p = "hijack" -> "spawn"
      [] p = "spawn" -> "join1"
      [] OTHER -> "ret"

\* runJob's statement order: where control goes after the step at p succeeds.
RunFlow(p, a) ==
    CASE p = "getRelease" -> "getArtifact"
      [] p = "getArtifact" -> "dockerImage"
      [] p = "dockerImage" -> "listHosts"
      [] p = "listHosts" -> IF a THEN "dial" ELSE "addJobs"
      [] p = "dial" -> "attachReq"
      [] p = "attachReq" -> "addJobs"
      [] p = "addJobs" -> IF a THEN "attachWait" ELSE "json"
      [] p = "attachWait" -> "switch"
      [] p = "switch" -> "hijack"
      [] p = "hijack" -> "spawn"
      [] p = "spawn" -> "join1"
      [] OTHER -> "ret"

\* releases.Get(newJob.ReleaseID)
RunGetRelease(r) ==
    /\ req[r].kind = "run" /\ req[r].pc = "getRelease"
    /\ \/ req' = [req EXCEPT ![r].pc = RunFlow("getRelease", req[r].attach)]
       \/ req' = Fail(r, "not found", Call("releases.Get", FALSE, NoStr, NoStr, 0))
    /\ UNCHANGED <<sess, hosts, jobsOn, nextJob>> /\ ReqFrame

\* artifacts.Get(release.ArtifactID)
RunGetArtifact(r) ==
    /\ req[r].kind = "run" /\ req[r].pc = "getArtifact"
    /\ \/ req' = [req EXCEPT ![r].pc = RunFlow("getArtifact", req[r].attach)]
       \/ req' = Fail(r, "not found", Call("artifacts.Get", FALSE, NoStr, NoStr, 0))
    /\ UNCHANGED <<sess, hosts, jobsOn, nextJob>> /\ ReqFrame

\* utils.DockerImage(artifact.URI), then the job record with a fresh ID.
RunBuildJob(r) ==
    /\ req[r].kind = "run" /\ req[r].pc = "dockerImage"
    /\ \/ /\ req' = [req EXCEPT ![r].pc = RunFlow("dockerImage", req[r].attach),
                                ![r].jobID = RandomJobID(nextJob + 1)]
          /\ nextJob' = nextJob + 1
       \/ /\ req' = Fail(r, "artifact.uri is invalid",
                         Call("DockerImage", FALSE, NoStr, NoStr, 0))
          /\ UNCHANGED nextJob
    /\ UNCHANGED <<sess, hosts, jobsOn>> /\ ReqFrame

\* Host selection with the emptiness test on the wrong side.
PickHost_Stale(snapshot) == IF snapshot = {} THEN {NoStr} ELSE HostIDs

\* for hostID = range hosts { break }: any key, or "" for an empty map.
PickHost(snapshot) == IF snapshot = {} THEN {NoStr} ELSE snapshot

\* cl.ListHosts() and the host selection.
RunListHosts(r) ==
    /\ req[r].kind = "run" /\ req[r].pc = "listHosts"
    /\ \/ \E h \in PickHost(hosts) :
            IF h = NoStr
            THEN req' = Fail(r, "no hosts found",
                             Call("ListHosts", TRUE, NoStr, NoStr, 0))
            ELSE req' = [req EXCEPT
                           ![r].hostID = h, ![r].snap = hosts,
                           ![r].pc = RunFlow("listHosts", req[r].attach),
                           ![r].calls = Append(@, Call("ListHosts", TRUE, h, NoStr, 0))]
       \/ req' = Fail(r, "list hosts", Call("ListHosts", FALSE, NoStr, NoStr, 0))
    /\ UNCHANGED <<sess, hosts, jobsOn, nextJob>> /\ ReqFrame

\* client, err := cl.DialHost(hostID); defer client.Close()
RunDialHost(r) ==
    /\ req[r].kind = "run" /\ req[r].pc = "dial"
    /\ LET s == Len(sess) + 1
           h == req[r].hostID
       IN  \/ /\ sess' = Append(sess, NewSess("dial", r, h, NoStr, <<>>))
              /\ req' = [req EXCEPT ![r].client = s,
                                    ![r].pc = RunFlow("dial", req[r].attach),
                                    ![r].defers = Append(@, s),
                                    ![r].calls = Append(@, Call("DialHost", TRUE, h, NoStr, s))]
           \/ /\ req' = Fail(r, "lorne connect failed",
                             Call("DialHost", FALSE, h, NoStr, 0))
              /\ UNCHANGED sess
    /\ UNCHANGED <<hosts, jobsOn, nextJob>> /\ ReqFrame

\* Attach without the deferred attachConn.Close().
RunAttach_NoDefer(r) ==
    /\ req[r].kind = "run" /\ req[r].pc = "attachReq"
    /\ LET s == Len(sess) + 1
           h == sess[req[r].client].host
           j == req[r].jobID
       IN  \/ /\ sess' = Append(sess, NewSess("attach", r, h, j, <<>>))
              /\ req' = [req EXCEPT ![r].attachConn = s,
                                    ![r].pc = RunFlow("attachReq", req[r].attach),
                                    ![r].calls = Append(@, Call("Attach", TRUE, h, j, s))]
           \/ /\ req' = Fail(r, "attach failed", Call("Attach", FALSE, h, j, 0))
              /\ UNCHANGED sess
    /\ UNCHANGED <<hosts, jobsOn, nextJob>> /\ ReqFrame

\* attachConn, attachWait, err = client.Attach(attachReq, true); defer attachConn.Close()
RunAttach(r) ==
    /\ req[r].kind = "run" /\ req[r].pc = "attachReq"
    /\ LET s == Len(sess) + 1
           h == sess[req[r].client].host
           j == req[r].jobID
       IN  \/ /\ sess' = Append(sess, NewSess("attach", r, h, j, <<>>))
              /\ req' = [req EXCEPT ![r].attachConn = s,
                                    ![r].pc = RunFlow("attachReq", req[r].attach),
                                    ![r].defers = Append(@, s),
                                    ![r].calls = Append(@, Call("Attach", TRUE, h, j, s))]
           \/ /\ req' = Fail(r, "attach failed", Call("Attach", FALSE, h, j, 0))
              /\ UNCHANGED sess
    /\ UNCHANGED <<hosts, jobsOn, nextJob>> /\ ReqFrame

\* AddJobs addressed to a host picked anew from the cluster.
RunAddJobs_Repick(r) ==
    /\ req[r].kind = "run" /\ req[r].pc = "addJobs"
    /\ \E h \in hosts :
         LET j == req[r].jobID
         IN  \/ /\ jobsOn' = [jobsOn EXCEPT ![h] = @ \cup {j}]
                /\ req' = [req EXCEPT
                             ![r].pc = RunFlow("addJobs", req[r].attach),
                             ![r].calls = Append(@, Call("AddJobs", TRUE, h, j, 0))]
             \/ /\ req' = Fail(r, "schedule failed", Call("AddJobs", FALSE, h, j, 0))
                /\ UNCHANGED jobsOn
    /\ UNCHANGED <<sess, hosts, nextJob>> /\ ReqFrame

\* AddJobs whose error is reported but not returned on.
RunAddJobs_NoReturn(r) ==
    /\ req[r].kind = "run" /\ req[r].pc = "addJobs"
    /\ LET h == req[r].hostID
           j == req[r].jobID
       IN  \/ /\ jobsOn' = [jobsOn EXCEPT ![h] = @ \cup {j}]
              /\ req' = [req EXCEPT
                           ![r].pc = RunFlow("addJobs", req[r].attach),
                           ![r].calls = Append(@, Call("AddJobs", TRUE, h, j, 0))]
           \/ /\ req' = [req EXCEPT
                           ![r].status = "error", ![r].err = "schedule failed",
                           ![r].pc = RunFlow("addJobs", req[r].attach),
                           ![r].calls = Append(@, Call("AddJobs", FALSE, h, j, 0))]
              /\ UNCHANGED jobsOn
    /\ UNCHANGED <<sess, hosts, nextJob>> /\ ReqFrame

\* cl.AddJobs({hostID: {job}}), and the branch on attach that follows it.
RunAddJobs(r) ==
    /\ req[r].kind = "run" /\ req[r].pc = "addJobs"
    /\ LET h == req[r].hostID
           j == req[r].jobID
       IN  \/ /\ jobsOn' = [jobsOn EXCEPT ![h] = @ \cup {j}]
              /\ req' = [req EXCEPT
                           ![r].pc = RunFlow("addJobs", req[r].attach),
                           ![r].calls = Append(@, Call("AddJobs", TRUE, h, j, 0))]
           \/ /\ req' = Fail(r, "schedule failed", Call("AddJobs", FALSE, h, j, 0))
              /\ UNCHANGED jobsOn
    /\ UNCHANGED <<sess, hosts, nextJob>> /\ ReqFrame

\* attachWait()
RunAttachWait(r) ==
    /\ req[r].kind = "run" /\ req[r].pc = "attachWait"
    /\ LET s == req[r].attachConn
       IN  \/ req' = [req EXCEPT ![r].pc = RunFlow("attachWait", req[r].attach),
                        ![r].calls = Append(@, Call("attachWait", TRUE, NoStr, NoStr, s))]
           \/ req' = Fail(r, "attach wait failed",
                          Call("attachWait", FALSE, NoStr, NoStr, s))
    /\ UNCHANGED <<sess, hosts, jobsOn, nextJob>> /\ ReqFrame

\* w.WriteHeader(http.StatusSwitchingProtocols)
RunSwitch(r) ==
    /\ req[r].kind = "run" /\ req[r].pc = "switch"
    /\ req' = [req EXCEPT ![r].status = "101",
                 ![r].pc = RunFlow("switch", req[r].attach),
                 ![r].calls = Append(@, Call("WriteHeader101", TRUE, NoStr, NoStr, 0))]
    /\ UNCHANGED <<sess, hosts, jobsOn, nextJob>> /\ ReqFrame

\* conn, _, err := w.(http.Hijacker).Hijack(); panic(err) or defer conn.Close()
RunHijack(r) ==
    /\ req[r].kind = "run" /\ req[r].pc = "hijack"
    /\ LET s == Len(sess) + 1
       IN  \/ /\ sess' = Append(sess, NewSess("conn", r, NoStr, NoStr, <<>>))
              /\ req' = [req EXCEPT ![r].conn = s, ![r].pc = RunFlow("hijack", req[r].attach),
                           ![r].defers = Append(@, s),
                           ![r].calls = Append(@, Call("Hijack", TRUE, NoStr, NoStr, s))]
           \/ /\ req' = [req EXCEPT ![r].panicked = TRUE, ![r].pc = "ret",
                           ![r].calls = Append(@, Call("Hijack", FALSE, NoStr, NoStr, 0))]
              /\ UNCHANGED sess
    /\ UNCHANGED <<hosts, jobsOn, nextJob>> /\ ReqFrame

\* done := make(chan struct{}, 2); go cp(conn, attachConn); go cp(attachConn, conn)
RunSpawn(r) ==
    /\ req[r].kind = "run" /\ req[r].pc = "spawn"
    /\ req' = [req EXCEPT ![r].cpDown = "copy", ![r].cpUp = "copy",
                          ![r].done = 0, ![r].pc = RunFlow("spawn", req[r].attach)]
    /\ UNCHANGED <<sess, hosts, jobsOn, nextJob>> /\ ReqFrame

\* The two copy tasks: "down" is cp(conn, attachConn), "up" is cp(attachConn, conn).
Dirs == {"up", "down"}
CpPc(r, d) == IF d = "up" THEN req[r].cpUp ELSE req[r].cpDown
CpFrom(r, d) == IF d = "up" THEN req[r].conn ELSE req[r].attachConn
CpTo(r, d) == IF d = "up" THEN req[r].attachConn ELSE req[r].conn
SetCp(r, d, v) ==
    IF d = "up" THEN [req EXCEPT ![r].cpUp = v] ELSE [req EXCEPT ![r].cpDown = v]

\* io.Copy(to, from): one read and its write, or the return at end-of-input
\* or on a failed read or write (the result is discarded).
CpCopy(r, d) ==
    /\ req[r].kind = "run" /\ CpPc(r, d) = "copy"
    /\ LET f == CpFrom(r, d)
           t == CpTo(r, d)
       IN  IF sess[f].closes > 0
           THEN /\ req' = SetCp(r, d, "closeWrite")
                /\ UNCHANGED sess
           ELSE IF sess[f].inbuf > 0
           THEN IF sess[t].closes > 0 \/ sess[t].wrClosed
                THEN /\ sess' = [sess EXCEPT ![f].inbuf = @ - 1, ![f].lost = @ + 1]
                     /\ req' = SetCp(r, d, "closeWrite")
                ELSE /\ sess' = [sess EXCEPT ![f].inbuf = @ - 1, ![t].out = @ + 1,
                                             ![f].users = @ \cup {r},
                                             ![t].users = @ \cup {r}]
                     /\ UNCHANGED req
           ELSE /\ sess[f].peerEOF
                /\ req' = SetCp(r, d, "closeWrite")
                /\ UNCHANGED sess
    /\ UNCHANGED <<hosts, jobsOn, nextJob>> /\ ReqFrame

\* The half-close replaced by a full close of the destination.
HalfClose_Full(s, r) ==
    [sess EXCEPT ![s].closes = @ + 1, ![s].users = @ \cup {r}]

\* to.CloseWrite()
HalfClose(s, r) ==
    [sess EXCEPT ![s].wrClosed = TRUE, ![s].users = @ \cup {r}]

CpCloseWrite(r, d) ==
    /\ req[r].kind = "run" /\ CpPc(r, d) = "closeWrite"
    /\ sess' = HalfClose(CpTo(r, d), r)
    /\ req' = SetCp(r, d, "signal")
    /\ UNCHANGED <<hosts, jobsOn, nextJob>> /\ ReqFrame

\* done <- struct{}{}: blocks while the channel is full.
CpSignal(r, d) ==
    /\ req[r].kind = "run" /\ CpPc(r, d) = "signal"
    /\ req[r].done < DoneCap
    /\ req' = [SetCp(r, d, "exit") EXCEPT ![r].done = @ + 1]
    /\ UNCHANGED <<sess, hosts, jobsOn, nextJob>> /\ ReqFrame

\* The join with the second receive dropped.
JoinNext_One(p) == "ret"

\* The join with a third receive, for a signal no task sends.
JoinNext_Three(p) == IF p = "join1" THEN "join2" ELSE "join3"

\* <-done; <-done; return
JoinNext(p) == IF p = "join1" THEN "join2" ELSE "ret"

RunJoin(r) ==
    /\ req[r].kind = "run" /\ req[r].pc \in {"join1", "join2"}
    /\ req[r].done > 0
    /\ req' = [req EXCEPT ![r].done = @ - 1, ![r].pc = JoinNext(req[r].pc)]
    /\ UNCHANGED <<sess, hosts, jobsOn, nextJob>> /\ ReqFrame

\* The body of run request r: the release to run and the optional cmd override.
NewJob(r) == IF r = 1 THEN [ReleaseID |-> "rel1", Cmd |-> <<"sh">>]
             ELSE [ReleaseID |-> "rel2", Cmd |-> <<>>]

\* The JSON summary with the two parts of the composite ID exchanged.
RunJSON_SwappedID(r) ==
    /\ req[r].kind = "run" /\ req[r].pc = "json"
    /\ req' = [req EXCEPT ![r].status = "200", ![r].pc = "ret",
                 ![r].body = <<[id |-> Composite(req[r].jobID, req[r].hostID),
                               releaseID |-> NewJob(r).ReleaseID,
                               cmd |-> NewJob(r).Cmd]>>,
                 ![r].calls = Append(@, Call("JSON", TRUE, req[r].hostID, req[r].jobID, 0))]
    /\ UNCHANGED <<sess, hosts, jobsOn, nextJob>> /\ ReqFrame

\* r.JSON(200, &ct.Job{ID: hostID + "-" + job.ID, ...})
RunJSON(r) ==
    /\ req[r].kind = "run" /\ req[r].pc = "json"
    /\ req' = [req EXCEPT ![r].status = "200", ![r].pc = "ret",
                 ![r].body = <<[id |-> Composite(req[r].hostID, req[r].jobID),
                               releaseID |-> NewJob(r).ReleaseID,
                               cmd |-> NewJob(r).Cmd]>>,
                 ![r].calls = Append(@, Call("JSON", TRUE, req[r].hostID, req[r].jobID, 0))]
    /\ UNCHANGED <<sess, hosts, jobsOn, nextJob>> /\ ReqFrame

\* The peers of an interactive session: the caller behind the hijacked
\* transport and the job behind the attach channel send bytes and end their
\* output whenever they like.
PeerSend(s) ==
    /\ s \in 1..Len(sess)
    /\ sess[s].kind \in {"conn", "attach"}
    /\ req[sess[s].owner].kind = "run"
    /\ req[sess[s].owner].conn # 0
    /\ ~sess[s].peerEOF /\ sess[s].closes = 0
    /\ sess[s].sent < MaxBytes
    /\ sess' = [sess EXCEPT ![s].sent = @ + 1, ![s].inbuf = @ + 1,
                             ![s].late = IF sess[s].wrClosed THEN @ + 1 ELSE @]
    /\ UNCHANGED <<req, hosts, jobsOn, nextJob>> /\ ReqFrame

PeerEOF(s) ==
    /\ s \in 1..Len(sess)
    /\ sess[s].kind \in {"conn", "attach"}
    /\ req[sess[s].owner].kind = "run"
    /\ req[sess[s].owner].conn # 0
    /\ ~sess[s].peerEOF /\ sess[s].closes = 0
    /\ sess' = [sess EXCEPT ![s].peerEOF = TRUE]
    /\ UNCHANGED <<req, hosts, jobsOn, nextJob>> /\ ReqFrame

\* X.Close()
Close(s, r) ==
    [sess EXCEPT ![s].closes = @ + 1, ![s].users = @ \cup {r}]

\* The deferred calls run in the order they were deferred.
RunDeferred_FIFO(r) ==
    /\ req[r].pc = "ret"
    /\ req[r].defers # <<>>
    /\ LET s == Head(req[r].defers)
       IN  /\ sess' = Close(s, r)
           /\ req' = [req EXCEPT ![r].defers = Tail(@),
                        ![r].calls = Append(@, Call("Close", TRUE, NoStr, NoStr, s))]
    /\ UNCHANGED <<hosts, jobsOn, nextJob>> /\ ReqFrame

\* A handler returns or panics: its deferred calls run, last deferred first.
RunDeferred(r) ==
    /\ req[r].pc = "ret"
    /\ req[r].defers # <<>>
    /\ LET n == Len(req[r].defers)
           s == req[r].defers[n]
       IN  /\ sess' = Close(s, r)
           /\ req' = [req EXCEPT ![r].defers = SubSeq(@, 1, n - 1),
                        ![r].calls = Append(@, Call("Close", TRUE, NoStr, NoStr, s))]
    /\ UNCHANGED <<hosts, jobsOn, nextJob>> /\ ReqFrame

\* The handler has returned: runJob ends the request; under
\* connectHostMiddleware c.Next() returns to the middleware.
Return(r) ==
    /\ req[r].pc = "ret"
    /\ req[r].defers = <<>>
    /\ req' = [req EXCEPT ![r].pc = IF req[r].kind = "run" THEN "done" ELSE "mwClose"]
    /\ UNCHANGED <<sess, hosts, jobsOn, nextJob>> /\ ReqFrame

\* connectHostMiddleware: parseJobID, the NotFound return, params["jobs_id"] = jobID
MwParse(r) ==
    /\ req[r].kind \in {"kill", "log"} /\ req[r].pc = "mwParse"
    /\ LET p == parseJobID(req[r].params)
       IN  IF p[1] = NoStr
           THEN req' = [req EXCEPT ![r].status = "error", ![r].err = "not found",
                                   ![r].pc = "done"]
           ELSE req' = [req EXCEPT ![r].hostID = p[1], ![r].params = p[2],
                                   ![r].pc = "mwDial"]
    /\ UNCHANGED <<sess, hosts, jobsOn, nextJob>> /\ ReqFrame

\* connectHostMiddleware dialing through a per-host cache of open clients.
MwDial_Cached(r) ==
    /\ req[r].kind \in {"kill", "log"} /\ req[r].pc = "mwDial"
    /\ LET s == Len(sess) + 1
           h == req[r].hostID
           open == {t \in 1..Len(sess) : sess[t].kind = "dial" /\ sess[t].host = h
                                          /\ sess[t].closes = 0}
           nxt == IF req[r].kind = "kill" THEN "stop" ELSE "logAttach"
       IN  \/ /\ h \in hosts /\ open = {}
              /\ sess' = Append(sess, NewSess("dial", r, h, NoStr, <<>>))
              /\ req' = [req EXCEPT ![r].client = s, ![r].pc = nxt,
                           ![r].calls = Append(@, Call("DialHost", TRUE, h, NoStr, s))]
           \/ /\ h \in hosts /\ open # {}
              /\ LET t == CHOOSE t \in open : TRUE
                 IN  /\ sess' = [sess EXCEPT ![t].users = @ \cup {r}]
                     /\ req' = [req EXCEPT ![r].client = t, ![r].pc = nxt,
                                  ![r].calls = Append(@, Call("DialHost", TRUE, h, NoStr, t))]
           \/ /\ req' = [req EXCEPT ![r].status = "error", ![r].err = "dial failed",
                           ![r].pc = "done",
                           ![r].calls = Append(@, Call("DialHost", FALSE, h, NoStr, 0))]
              /\ UNCHANGED sess
    /\ UNCHANGED <<hosts, jobsOn, nextJob>> /\ ReqFrame

\* client, err := cl.DialHost(hostID); c.MapTo(client, ...); c.Next()
MwDial(r) ==
    /\ req[r].kind \in {"kill", "log"} /\ req[r].pc = "mwDial"
    /\ LET s == Len(sess) + 1
           h == req[r].hostID
       IN  \/ /\ h \in hosts
              /\ sess' = Append(sess, NewSess("dial", r, h, NoStr, <<>>))
              /\ req' = [req EXCEPT ![r].client = s,
                           ![r].pc = IF req[r].kind = "kill" THEN "stop" ELSE "logAttach",
                           ![r].calls = Append(@, Call("DialHost", TRUE, h, NoStr, s))]
           \/ /\ req' = [req EXCEPT ![r].status = "error", ![r].err = "dial failed",
                           ![r].pc = "done",
                           ![r].calls = Append(@, Call("DialHost", FALSE, h, NoStr, 0))]
              /\ UNCHANGED sess
    /\ UNCHANGED <<hosts, jobsOn, nextJob>> /\ ReqFrame

\* killJob: client.StopJob(params["jobs_id"])
KillStop(r) ==
    /\ req[r].kind = "kill" /\ req[r].pc = "stop"
    /\ LET s == req[r].client
           h == sess[s].host
           j == req[r].params
       IN  \/ /\ j \in jobsOn[h]
              /\ jobsOn' = [jobsOn EXCEPT ![h] = @ \ {j}]
              /\ req' = [req EXCEPT ![r].pc = "ret",
                           ![r].calls = Append(@, Call("StopJob", TRUE, h, j, s))]
           \/ /\ req' = Fail(r, "stop failed", Call("StopJob", FALSE, h, j, s))
              /\ UNCHANGED jobsOn
    /\ sess' = [sess EXCEPT ![req[r].client].users = @ \cup {r}]
    /\ UNCHANGED <<hosts, nextJob>> /\ ReqFrame

\* jobLog: stream, _, err := cluster.Attach(attachReq, false); defer stream.Close()
LogAttach(r) ==
    /\ req[r].kind = "log" /\ req[r].pc = "logAttach"
    /\ LET s == Len(sess) + 1
           h == sess[req[r].client].host
           j == req[r].params
       IN  \/ \E data \in LogInputs :
                /\ sess' = Append(sess, NewSess("attach", r, h, j, data))
                /\ req' = [req EXCEPT ![r].stream = s, ![r].pc = "logCopy",
                             ![r].defers = Append(@, s),
                             ![r].calls = Append(@, Call("Attach", TRUE, h, j, s))]
           \/ /\ req' = Fail(r, "log attach failed", Call("Attach", FALSE, h, j, 0))
              /\ UNCHANGED sess
    /\ UNCHANGED <<hosts, jobsOn, nextJob>> /\ ReqFrame

\* One chunk of demultiplex.Copy(ssew.Stream("stdout"), ssew.Stream("stderr"), stream)
\* or of io.Copy(w, stream), or the end of the stream. The copy returns when
\* the stream ends, when reading the stream fails, or when the Write of a
\* chunk fails; jobLog discards what it returns and goes on.
LogCopy(r) ==
    /\ req[r].kind = "log" /\ req[r].pc = "logCopy"
    /\ LET s == req[r].stream
           d == sess[s].data
           after == IF req[r].sse THEN "logEof" ELSE "ret"
       IN  IF d # <<>>
           THEN \/ /\ sess' = [sess EXCEPT ![s].data = Tail(d), ![s].users = @ \cup {r}]
                   /\ req' = [req EXCEPT ![r].body =
                                Append(@, IF req[r].sse THEN <<"data", Head(d)>>
                                          ELSE <<"raw", Head(d)>>)]
                \/ /\ sess' = [sess EXCEPT ![s].data = Tail(d), ![s].users = @ \cup {r}]
                   /\ req' = [req EXCEPT ![r].body = Append(@, <<"partial", Head(d)>>),
                                ![r].copyErr = TRUE, ![r].pc = after]
                \/ /\ req' = [req EXCEPT ![r].copyErr = TRUE, ![r].pc = after]
                   /\ UNCHANGED sess
           ELSE /\ req' = [req EXCEPT ![r].pc = after]
                /\ UNCHANGED sess
    /\ UNCHANGED <<hosts, jobsOn, nextJob>> /\ ReqFrame

\* w.Write([]byte("event: eof\ndata: {}\n\n")): the body records the write.
LogEof(r) ==
    /\ req[r].kind = "log" /\ req[r].pc = "logEof"
    /\ req' = [req EXCEPT ![r].body = Append(@, <<"eof", "">>), ![r].pc = "ret"]
    /\ UNCHANGED <<sess, hosts, jobsOn, nextJob>> /\ ReqFrame

\* connectHostMiddleware after c.Next(): client.Close()
MwClose(r) ==
    /\ req[r].kind \in {"kill", "log"} /\ req[r].pc = "mwClose"
    /\ sess' = Close(req[r].client, r)
    /\ req' = [req EXCEPT ![r].pc = "done",
                 ![r].calls = Append(@, Call("Close", TRUE, NoStr, NoStr, req[r].client))]
    /\ UNCHANGED <<hosts, jobsOn, nextJob>> /\ ReqFrame

Next ==
    \/ \E r \in Reqs : Begin(r)
    \/ \E r \in Reqs : RunGetRelease(r)
    \/ \E r \in Reqs : RunGetArtifact(r)
    \/ \E r \in Reqs : RunBuildJob(r)
    \/ \E r \in Reqs : RunListHosts(r)
    \/ \E r \in Reqs : RunDialHost(r)
    \/ \E r \in Reqs : RunAttach(r)
    \/ \E r \in Reqs : RunAddJobs(r)
    \/ \E r \in Reqs : RunAttachWait(r)
    \/ \E r \in Reqs : RunSwitch(r)
    \/ \E r \in Reqs : RunHijack(r)
    \/ \E r \in Reqs : RunSpawn(r)
    \/ \E r \in Reqs, d \in Dirs : CpCopy(r, d)
    \/ \E r \in Reqs, d \in Dirs : CpCloseWrite(r, d)
    \/ \E r \in Reqs, d \in Dirs : CpSignal(r, d)
    \/ \E r \in Reqs : RunJoin(r)
    \/ \E r \in Reqs : RunJSON(r)
    \/ \E r \in Reqs : RunDeferred(r)
    \/ \E r \in Reqs : Return(r)
    \/ \E r \in Reqs : MwParse(r)
    \/ \E r \in Reqs : MwDial(r)
    \/ \E r \in Reqs : KillStop(r)
    \/ \E r \in Reqs : LogAttach(r)
    \/ \E r \in Reqs : LogCopy(r)
    \/ \E r \in Reqs : LogEof(r)
    \/ \E r \in Reqs : MwClose(r)
    \/ \E s \in 1..Len(sess) : PeerSend(s)
    \/ \E s \in 1..Len(sess) : PeerEOF(s)

Init == ReqInit /\ ParseIdle /\ SSEIdle /\ ListIdle

Spec == Init /\ [][Next]_vars

\* --------------------------------------------------- overlapping requests
\* The HTTP server runs every request on its own task, so the handlers of two
\* requests interleave step by step. Both requests address host "a".
ConcParamIDs == { Composite(HostA, <<"1">>) }

BeginConc(r) ==
    /\ req[r].pc = "idle"
    /\ \/ \E a \in BOOLEAN :
            req' = [req EXCEPT ![r].kind = "run", ![r].attach = a,
                               ![r].pc = "getRelease"]
       \/ \E k \in {"kill", "log"}, id \in ConcParamIDs, e \in BOOLEAN :
            /\ (k = "kill" => e = FALSE)
            /\ req' = [req EXCEPT ![r].kind = k, ![r].params = id,
                                  ![r].rawID = id,
                                  ![r].sse = e, ![r].pc = "mwParse"]
    /\ UNCHANGED <<sess, hosts, jobsOn, nextJob>> /\ ReqFrame

InitConc ==
    /\ req = [r \in Reqs |-> IdleReq]
    /\ sess = <<>>
    /\ hosts = {HostA}
    /\ jobsOn = [h \in HostIDs |-> {}]
    /\ nextJob = 0
    /\ pin = <<>> /\ pout = <<>>
    /\ mu = "free" /\ sink = <<>> /\ wr = <<>>
    /\ lhosts = <<>> /\ lres = <<>>

NextConc ==
    \/ \E r \in Reqs : BeginConc(r)
    \/ \E r \in Reqs : RunGetRelease(r)
    \/ \E r \in Reqs : RunGetArtifact(r)
    \/ \E r \in Reqs : RunBuildJob(r)
    \/ \E r \in Reqs : RunListHosts(r)
    \/ \E r \in Reqs : RunDialHost(r)
    \/ \E r \in Reqs : RunAttach(r)
    \/ \E r \in Reqs : RunAddJobs(r)
    \/ \E r \in Reqs : RunAttachWait(r)
    \/ \E r \in Reqs : RunSwitch(r)
    \/ \E r \in Reqs : RunHijack(r)
    \/ \E r \in Reqs : RunSpawn(r)
    \/ \E r \in Reqs, d \in Dirs : CpCopy(r, d)
    \/ \E r \in Reqs, d \in Dirs : CpCloseWrite(r, d)
    \/ \E r \in Reqs, d \in Dirs : CpSignal(r, d)
    \/ \E r \in Reqs : RunJoin(r)
    \/ \E r \in Reqs : RunJSON(r)
    \/ \E r \in Reqs : RunDeferred(r)
    \/ \E r \in Reqs : Return(r)
    \/ \E r \in Reqs : MwParse(r)
    \/ \E r \in Reqs : MwDial(r)
    \/ \E r \in Reqs : KillStop(r)
    \/ \E r \in Reqs : LogAttach(r)
    \/ \E r \in Reqs : LogCopy(r)
    \/ \E r \in Reqs : LogEof(r)
    \/ \E r \in Reqs : MwClose(r)
    \/ \E s \in 1..Len(sess) : PeerEOF(s)

SpecConc == InitConc /\ [][NextConc]_vars

\* ------------------------------------------------- one request, scheduled fairly
\* One run request, to follow its copy tasks to the end. The Go scheduler
\* runs every runnable goroutine eventually: the handler's task and each of
\* its two copy tasks take their next step if it stays possible. The peers
\* are under no obligation to send or to end their output.
LiveReqs == {1}

BeginRun(r) == Begin(r) /\ req'[r].kind = "run"

NextLive ==
    \/ \E r \in LiveReqs : BeginRun(r)
    \/ \E r \in LiveReqs : RunGetRelease(r)
    \/ \E r \in LiveReqs : RunGetArtifact(r)
    \/ \E r \in LiveReqs : RunBuildJob(r)
    \/ \E r \in LiveReqs : RunListHosts(r)
    \/ \E r \in LiveReqs : RunDialHost(r)
    \/ \E r \in LiveReqs : RunAttach(r)
    \/ \E r \in LiveReqs : RunAddJobs(r)
    \/ \E r \in LiveReqs : RunAttachWait(r)
    \/ \E r \in LiveReqs : RunSwitch(r)
    \/ \E r \in LiveReqs : RunHijack(r)
    \/ \E r \in LiveReqs : RunSpawn(r)
    \/ \E r \in LiveReqs, d \in Dirs : CpCopy(r, d)
    \/ \E r \in LiveReqs, d \in Dirs : CpCloseWrite(r, d)
    \/ \E r \in LiveReqs, d \in Dirs : CpSignal(r, d)
    \/ \E r \in LiveReqs : RunJoin(r)
    \/ \E r \in LiveReqs : RunJSON(r)
    \/ \E r \in LiveReqs : RunDeferred(r)
    \/ \E r \in LiveReqs : Return(r)
    \/ \E s \in 1..Len(sess) : PeerSend(s)
    \/ \E s \in 1..Len(sess) : PeerEOF(s)

\* The handler's task between the spawn of the copy tasks and its return.
HandlerStep(r) == RunJoin(r) \/ RunDeferred(r) \/ Return(r)
\* One copy task.
CpStep(r, d) == CpCopy(r, d) \/ CpCloseWrite(r, d) \/ CpSignal(r, d)

InitLive == ReqInit /\ ParseIdle /\ SSEIdle /\ ListIdle

SpecLive ==
    /\ InitLive /\ [][NextLive]_vars
    /\ \A r \in LiveReqs : WF_vars(HandlerStep(r))
    /\ \A r \in LiveReqs : \A d \in Dirs : WF_vars(CpStep(r, d))

\* ------------------------------------------------------ parseJobID harness
RECURSIVE StrsOfLen(_)
StrsOfLen(n) ==
    IF n = 0 THEN { <<>> }
    ELSE { Append(t, c) : t \in StrsOfLen(n - 1), c \in Chars }

Strs == UNION { StrsOfLen(n) : n \in 0..MaxLen }

ParseInit == pin \in Strs /\ pout = <<>>

\* hostID, jobID := parseJobID(params)
ParseCall ==
    /\ pout = <<>>
    /\ pout' = parseJobID(pin)
    /\ UNCHANGED <<pin, reqVars, sseVars, listVars>>

InitParse == ParseInit /\ ReqIdle /\ SSEIdle /\ ListIdle

SpecParse == InitParse /\ [][ParseCall]_vars

\* ------------------------------------------------------------ SSE writer
\* The handles of one sseLogWriter: ssew.Stream("stdout"), ssew.Stream("stderr").
Handles == {"stdout", "stderr"}

SSEInit ==
    /\ mu = "free"
    /\ sink = <<>>
    /\ wr = [h \in Handles |-> [pc |-> "idle", n |-> 0, ret |-> <<>>]]

SSEFrame == UNCHANGED <<reqVars, parseVars, listVars>>

\* A task calls Write(p) on its handle; the chunk p is named by the call.
SSEWrite(h) ==
    /\ wr[h].pc = "idle"
    /\ wr[h].n < MaxWrites
    /\ wr' = [wr EXCEPT ![h].pc = "lock", ![h].n = @ + 1]
    /\ UNCHANGED <<mu, sink>> /\ SSEFrame

\* Lock() that does not wait for the holder.
LockFree_Always(m) == TRUE

\* w.w.Lock() proceeds only when the mutex is free.
LockFree(m) == m = "free"

SSELock(h) ==
    /\ wr[h].pc = "lock"
    /\ LockFree(mu)
    /\ mu' = h
    /\ wr' = [wr EXCEPT ![h].pc = "prefix"]
    /\ UNCHANGED sink /\ SSEFrame

\* Write with Unlock called only on the successful path, not deferred.
SSEReturn_HeldOnError(h, res) ==
    /\ mu' = IF res = "err" THEN mu ELSE "free"
    /\ wr' = [wr EXCEPT ![h].pc = "idle", ![h].ret = Append(@, res)]

\* return 0, err (or len(p), err): the deferred Unlock runs.
SSEReturn(h, res) ==
    /\ mu' = "free"
    /\ wr' = [wr EXCEPT ![h].pc = "idle", ![h].ret = Append(@, res)]

\* w.w.Write([]byte("data: "))
SSEPrefix(h) ==
    /\ wr[h].pc = "prefix"
    /\ \/ /\ sink' = Append(sink, [part |-> "prefix", by |-> h, call |-> wr[h].n,
                                   stream |-> "", data |-> <<>>])
          /\ wr' = [wr EXCEPT ![h].pc = "encode"]
          /\ UNCHANGED mu
       \/ /\ SSEReturn(h, "err")
          /\ UNCHANGED sink
    /\ SSEFrame

\* The chunk tagged with a fixed stream name instead of the handle's.
ChunkStream_Fixed(h) == "stdout"

\* &sseLogChunk{Stream: w.s, Data: string(p)}
ChunkStream(h) == h

\* w.w.Encode(&sseLogChunk{...}): the JSON record and the encoder's "\n",
\* in one write to the sink.
SSEEncode(h) ==
    /\ wr[h].pc = "encode"
    /\ \/ /\ sink' = Append(sink, [part |-> "record", by |-> h, call |-> wr[h].n,
                                   stream |-> ChunkStream(h),
                                   data |-> <<h, wr[h].n>>])
          /\ wr' = [wr EXCEPT ![h].pc = "newline"]
          /\ UNCHANGED mu
       \/ /\ SSEReturn(h, "err")
          /\ UNCHANGED sink
    /\ SSEFrame

\* _, err := w.w.Write([]byte("\n")); return len(p), err
SSENewline(h) ==
    /\ wr[h].pc = "newline"
    /\ \/ /\ sink' = Append(sink, [part |-> "newline", by |-> h, call |-> wr[h].n,
                                   stream |-> "", data |-> <<>>])
          /\ SSEReturn(h, "ok")
       \/ /\ SSEReturn(h, "err")
          /\ UNCHANGED sink
    /\ SSEFrame

SSENext ==
    \/ \E h \in Handles : SSEWrite(h)
    \/ \E h \in Handles : SSELock(h)
    \/ \E h \in Handles : SSEPrefix(h)
    \/ \E h \in Handles : SSEEncode(h)
    \/ \E h \in Handles : SSENewline(h)

InitSSE == SSEInit /\ ReqIdle /\ ParseIdle /\ ListIdle

SpecSSE == InitSSE /\ [][SSENext]_vars

\* A Write that has been called runs to its return: the task calling it is
\* scheduled whenever its next step is possible.
WriteStep(h) == SSELock(h) \/ SSEPrefix(h) \/ SSEEncode(h) \/ SSENewline(h)

SpecSSEFair == SpecSSE /\ \A h \in Handles : WF_vars(WriteStep(h))

\* ---------------------------------------------------------------- jobList
\* The app of the request, and another app with jobs on the same hosts.
AppA == "appA"
AppB == "appB"

\* A job of a host: its ID, its flynn-controller.app, .type and .release
\* attributes and its Config.Cmd.
JobAttrs ==
    [app : {AppA, AppB}, type : {"", "web"}, release : {"rel1", "rel2"},
     cmd : {<<>>, <<"sh">>}]
JobNames == << <<"1">>, <<"2">>, <<"3">> >>
MkJob(k, a) ==
    [ID |-> JobNames[k], app |-> a.app, type |-> a.type,
     release |-> a.release, cmd |-> a.cmd]

\* The job lists a host can hold: job IDs are unique on a host.
RECURSIVE JobListsOfLen(_)
JobListsOfLen(n) ==
    IF n = 0 THEN { <<>> }
    ELSE { Append(js, MkJob(n, a)) : js \in JobListsOfLen(n - 1), a \in JobAttrs }

JobLists(n) == UNION { JobListsOfLen(k) : k \in 0..n }

\* The orders in which range may visit the hosts of a snapshot.
HostOrders == { <<>>, <<HostA>>, <<HostB>>, <<HostA, HostB>>, <<HostB, HostA>> }

ListInit ==
    /\ \E o \in HostOrders :
         \E f \in [1..Len(o) -> JobLists(MaxJobs)] :
             lhosts = [i \in 1..Len(o) |-> [ID |-> o[i], Jobs |-> f[i]]]
    /\ lres = <<>>

\* The filter with the comparison dropped: every job of every app is listed.
Skipped_Never(app, j) == FALSE

\* if j.Attributes["flynn-controller.app"] != app.ID { continue }
Skipped(app, j) == j.app # app

\* The summary built for job j of host h.
Summary(h, j) ==
    [ID |-> Composite(h.ID, j.ID), Type |-> j.type, ReleaseID |-> j.release,
     Cmd |-> IF j.type = "" THEN j.cmd ELSE <<>>]

\* for _, j := range h.Jobs { ... jobs = append(jobs, job) }
RECURSIVE HostJobs(_, _, _, _)
HostJobs(app, h, k, acc) ==
    IF k > Len(h.Jobs) THEN acc
    ELSE HostJobs(app, h, k + 1,
                  IF Skipped(app, h.Jobs[k]) THEN acc
                  ELSE Append(acc, Summary(h, h.Jobs[k])))

\* for _, h := range hosts { ... }
RECURSIVE jobList(_, _, _, _)
jobList(app, hs, i, acc) ==
    IF i > Len(hs) THEN acc
    ELSE jobList(app, hs, i + 1, HostJobs(app, hs[i], 1, acc))

\* The handler: ListHosts fails and the error is reported, or the summaries
\* are sent with status 200.
ListCall ==
    /\ lres = <<>>
    /\ \/ lres' = [status |-> "error", jobs |-> <<>>]
       \/ lres' = [status |-> "200", jobs |-> jobList(AppA, lhosts, 1, <<>>)]
    /\ UNCHANGED <<lhosts, reqVars, parseVars, sseVars>>

InitList == ListInit /\ ReqIdle /\ ParseIdle /\ SSEIdle

SpecList == InitList /\ [][ListCall]_vars

\* ------------------------------------------------------------- properties
RunReqs == {r \in Reqs : req[r].kind = "run"}
Interactive == {r \in RunReqs : req[r].attach}
CallIdx(r) == 1..Len(req[r].calls)
Called(r, op) == \E i \in CallIdx(r) : req[r].calls[i].op = op
CalledOK(r, op) == \E i \in CallIdx(r) : req[r].calls[i].op = op /\ req[r].calls[i].ok
CalledErr(r, op) == \E i \in CallIdx(r) : req[r].calls[i].op = op /\ ~req[r].calls[i].ok
Owned(r) == {s \in 1..Len(sess) : sess[s].owner = r}
CpRunning(r, d) == CpPc(r, d) \in {"copy", "closeWrite", "signal"}

\* C1: in an interactive run request every AddJobs call comes after a
\* successful DialHost and then a successful Attach for the job's ID on the
\* selected host, and no AddJobs call follows a failed DialHost or Attach.
C1_AttachBeforeSubmit ==
    \A r \in Interactive : \A i \in CallIdx(r) :
        req[r].calls[i].op = "AddJobs" =>
            /\ \E d \in 1..(i - 1), a \in 1..(i - 1) :
                 /\ d < a
                 /\ req[r].calls[d].op = "DialHost" /\ req[r].calls[d].ok
                 /\ req[r].calls[a].op = "Attach" /\ req[r].calls[a].ok
                 /\ req[r].calls[a].job = req[r].calls[i].job
                 /\ req[r].calls[a].host = req[r].calls[i].host
            /\ \A k \in 1..(i - 1) :
                 req[r].calls[k].op \in {"DialHost", "Attach"} => req[r].calls[k].ok

\* C1 witness: an interactive request has submitted its job.
C1_Witness ==
    \E r \in Interactive : CalledOK(r, "AddJobs") /\ req[r].attachConn # 0

\* C2: when a request has finished, every host dial and attach session it
\* opened has been closed exactly once, and none is ever closed twice.
C2_ReleasedExactlyOnce ==
    /\ \A s \in 1..Len(sess) :
         sess[s].kind \in {"dial", "attach"} => sess[s].closes <= 1
    /\ \A r \in Reqs : req[r].pc = "done" =>
         \A s \in Owned(r) :
            sess[s].kind \in {"dial", "attach"} => sess[s].closes = 1

\* C2 witness: a run request that panicked on a failed hijack and a log
\* request that streamed have both finished with their sessions closed.
C2_Witness ==
    /\ req[1].pc = "done" /\ req[1].panicked /\ req[1].attachConn # 0
    /\ sess[req[1].attachConn].closes = 1 /\ sess[req[1].client].closes = 1
    /\ req[2].pc = "done" /\ req[2].kind = "log" /\ req[2].stream # 0
    /\ sess[req[2].stream].closes = 1 /\ sess[req[2].client].closes = 1

\* C3: while either copy loop of an interactive session is still running the
\* handler has not returned and neither the transport connection nor the
\* attach channel is fully closed.
C3_JoinBeforeTeardown ==
    \A r \in Interactive :
        (\E d \in Dirs : CpRunning(r, d)) =>
            /\ req[r].pc \in {"join1", "join2"}
            /\ sess[req[r].conn].closes = 0
            /\ sess[req[r].attachConn].closes = 0

\* C3 witness: both loops have completed and the handler has then closed
\* the transport connection and the attach channel and returned.
C3_Witness ==
    \E r \in Interactive :
        /\ req[r].cpUp = "exit" /\ req[r].cpDown = "exit"
        /\ req[r].pc = "done"
        /\ sess[req[r].conn].closes = 1
        /\ sess[req[r].attachConn].closes = 1

\* C4: the copy loops only half-close: during the join no session is fully
\* closed, and when a loop has stopped copying every byte its source's peer
\* produced has been delivered to its destination, none dropped.
C4_HalfCloseKeepsOtherDirection ==
    \A r \in Interactive : req[r].conn # 0 =>
        /\ req[r].pc \in {"join1", "join2"} =>
             sess[req[r].conn].closes = 0 /\ sess[req[r].attachConn].closes = 0
        /\ \A d \in Dirs :
             CpPc(r, d) \in {"closeWrite", "signal", "exit"} =>
                /\ sess[CpTo(r, d)].out = sess[CpFrom(r, d)].sent
                /\ sess[CpFrom(r, d)].lost = 0
                /\ sess[CpFrom(r, d)].inbuf = 0

\* C4 witness: the caller's input ended first, the job's input was
\* half-closed, and a byte the job produced after that reached the caller.
C4_Witness ==
    \E r \in Interactive :
        /\ req[r].conn # 0
        /\ req[r].cpUp = "exit" /\ req[r].cpDown = "exit"
        /\ sess[req[r].attachConn].wrClosed
        /\ sess[req[r].attachConn].late >= 1
        /\ sess[req[r].conn].out = sess[req[r].attachConn].sent

\* The sink positions holding parts written by call k of handle h.
PartsOf(h, k) == {i \in 1..Len(sink) : sink[i].by = h /\ sink[i].call = k}
\* A complete frame of call k of handle h starts at sink position i.
FrameAt(i, h, k) ==
    /\ i + 2 <= Len(sink)
    /\ PartsOf(h, k) = {i, i + 1, i + 2}
    /\ sink[i].part = "prefix"
    /\ sink[i + 1].part = "record" /\ sink[i + 1].data = <<h, k>>
    /\ sink[i + 2].part = "newline"
\* Call k of handle h left exactly one complete frame, tagged with h.
OneFrame(h, k) ==
    /\ Cardinality({i \in 1..Len(sink) : FrameAt(i, h, k)}) = 1
    /\ \A i \in 1..Len(sink) : FrameAt(i, h, k) => sink[i + 1].stream = h
\* The parts of call k of handle h are adjacent in the sink and are the
\* first parts of a frame, in order.
FramePrefix(h, k) ==
    LET P == PartsOf(h, k)
        n == Cardinality(P)
    IN  /\ n <= 3
        /\ \A i \in P, j \in P : \A m \in i..j : m \in P
        /\ \A i \in P :
             LET pos == Cardinality({j \in P : j <= i})
             IN  sink[i].part = IF pos = 1 THEN "prefix"
                                ELSE IF pos = 2 THEN "record" ELSE "newline"
        /\ \A i \in P : sink[i].part = "record" => sink[i].stream = h
Returned(h) == 1..Len(wr[h].ret)

\* C5 as stated: every Write call that has returned left exactly one
\* complete frame in the sink, tagged with its handle.
C5_OneFramePerWrite ==
    \A h \in Handles : \A k \in Returned(h) : OneFrame(h, k)

\* C5 amended: every Write call that returned without error left exactly one
\* complete frame tagged with its handle; a Write call that returned an error
\* left an incomplete frame (the parts written before the sink failed); and
\* the parts of one call are never interleaved with those of another.
C5_OneFramePerSuccessfulWrite ==
    \A h \in Handles :
        /\ \A k \in 1..wr[h].n : FramePrefix(h, k)
        /\ \A k \in Returned(h) :
             IF wr[h].ret[k] = "ok" THEN OneFrame(h, k)
             ELSE Cardinality(PartsOf(h, k)) < 3

\* C5 witness: both handles have written a frame, and a Write on one handle
\* waits for the lock while a Write on the other is in the middle of a frame.
C5_Witness ==
    /\ \A h \in Handles : \E k \in Returned(h) : wr[h].ret[k] = "ok" /\ OneFrame(h, k)
    /\ \E h \in Handles, g \in Handles :
         /\ wr[h].pc = "lock" /\ mu = g /\ wr[g].pc = "newline"

\* C6: when AddJobs fails in an interactive request the request reports
\* "schedule failed", never calls attachWait, sends neither the protocol
\* switch nor a JSON summary, and has closed the attach session and the host
\* dial when it finishes.
C6_ScheduleFailedTearsDown ==
    \A r \in Interactive : CalledErr(r, "AddJobs") =>
        /\ req[r].status = "error" /\ req[r].err = "schedule failed"
        /\ ~Called(r, "attachWait")
        /\ ~Called(r, "WriteHeader101") /\ ~Called(r, "JSON")
        /\ req[r].attachConn # 0 /\ req[r].client # 0
        /\ req[r].pc \in {"ret", "done"}
        /\ req[r].pc = "done" =>
             /\ sess[req[r].attachConn].closes = 1
             /\ sess[req[r].client].closes = 1

\* C6 witness: an interactive request whose AddJobs failed has finished.
C6_Witness ==
    \E r \in Interactive :
        /\ CalledErr(r, "AddJobs") /\ req[r].pc = "done"
        /\ sess[req[r].attachConn].closes = 1

\* C7 as stated: a run request that ended in failure has left no job
\* submitted on any host and has released every session it opened.
C7_FailureCommitsNothing ==
    \A r \in RunReqs : (req[r].pc = "done" /\ req[r].status = "error") =>
        /\ \A h \in HostIDs : req[r].jobID \notin jobsOn[h]
        /\ \A s \in Owned(r) : sess[s].closes = 1

\* The composite ID has no "-", or an empty part beside its first "-".
Malformed(id) ==
    \/ \A i \in 1..Len(id) : id[i] # "-"
    \/ id[1] = "-"
    \/ (id[Len(id)] = "-" /\ \A i \in 1..(Len(id) - 1) : id[i] # "-")

\* C8: a kill or log request with a malformed job ID ends with NotFound
\* straight after parsing: no DialHost, StopJob or Attach call is made and
\* no session is opened.
C8_MalformedContactsNoHost ==
    \A r \in Reqs :
        (req[r].kind \in {"kill", "log"} /\ Malformed(req[r].rawID)
           /\ req[r].pc # "mwParse") =>
            /\ req[r].pc = "done"
            /\ req[r].status = "error" /\ req[r].err = "not found"
            /\ req[r].calls = <<>>
            /\ req[r].client = 0 /\ req[r].stream = 0
            /\ Owned(r) = {}

\* C8 witness: a kill request for "ab" (no separator) ended with NotFound.
C8_Witness ==
    \E r \in Reqs :
        /\ req[r].kind = "kill" /\ req[r].rawID = <<"a", "b">>
        /\ req[r].pc = "done" /\ req[r].err = "not found"

\* The non-empty strings and those without a "-".
NonEmpty(t) == t # <<>>
NoDash(t) == \A i \in 1..Len(t) : t[i] # "-"
\* The ways to write pin as h + "-" + j.
Cuts == {k \in 1..Len(pin) : pin[k] = "-"}
HostPart(k) == SubSeq(pin, 1, k - 1)
JobPart(k) == SubSeq(pin, k + 1, Len(pin))
NotFoundResult == << <<>>, <<>> >>

\* C9 as stated: for all non-empty h and j, parsing h + "-" + j yields
\* (h, j); a string that is malformed yields ("", "").
C9_RoundTripAnyHost ==
    pout # <<>> =>
        /\ \A k \in Cuts :
             (NonEmpty(HostPart(k)) /\ NonEmpty(JobPart(k))) =>
                 pout = <<HostPart(k), JobPart(k)>>
        /\ Malformed(pin) => pout = NotFoundResult

\* C9 amended: for all non-empty h without a "-" and all non-empty j,
\* parsing h + "-" + j yields (h, j); a string with no "-", or with an empty
\* part on either side of its first "-", yields ("", "").
C9_RoundTripDashFreeHost ==
    pout # <<>> =>
        /\ \A k \in Cuts :
             (NonEmpty(HostPart(k)) /\ NoDash(HostPart(k)) /\ NonEmpty(JobPart(k))) =>
                 pout = <<HostPart(k), JobPart(k)>>
        /\ Malformed(pin) => pout = NotFoundResult

\* C9 witness: "a-b-" parsed to ("a", "b-"): only the first separator cuts.
C9_Witness ==
    /\ pin = <<"a", "-", "b", "-">>
    /\ pout = << <<"a">>, <<"b", "-">> >>

\* C10: once ListHosts has returned a snapshot, selection fails with the
\* no-hosts error exactly when the snapshot is empty, and otherwise the
\* selected host is a key of the snapshot.
C10_SelectionFromSnapshot ==
    \A r \in RunReqs :
        /\ CalledOK(r, "ListHosts") =>
             IF hosts = {}
             THEN req[r].err = "no hosts found" /\ req[r].hostID = NoStr
             ELSE /\ req[r].err # "no hosts found"
                  /\ req[r].hostID \in hosts
                  /\ req[r].snap = hosts
        /\ req[r].err = "no hosts found" => (CalledOK(r, "ListHosts") /\ hosts = {})

\* C10 witness: from a snapshot of two hosts the second was selected.
C10_Witness ==
    \E r \in RunReqs :
        /\ CalledOK(r, "ListHosts") /\ hosts = HostIDs /\ req[r].hostID = HostB

\* The positions in r's call log of the calls of op, and of the successful ones.
CallsOf(r, op) == {i \in CallIdx(r) : req[r].calls[i].op = op}
OKCallsOf(r, op) == {i \in CallsOf(r, op) : req[r].calls[i].ok}
\* Some successful call of op comes before position i in r's call log.
OKBefore(r, op, i) == \E k \in OKCallsOf(r, op) : k < i
\* The duplex proxy of r has been started.
Streaming(r) == req[r].cpUp # "none" \/ req[r].cpDown # "none"

\* C11: in an interactive run request the phases come in the order attach,
\* submit, wait-ready, protocol switch, streaming: attachWait is called only
\* after AddJobs succeeded, the 101 status is sent only after attachWait
\* succeeded, the proxy starts only after the 101 status and the hijack; a
\* failed wait is reported as "attach wait failed" with no 101 status; and
\* no interactive request emits the JSON summary.
C11_PhaseOrder ==
    \A r \in Interactive :
        /\ \A i \in CallsOf(r, "AddJobs") : OKBefore(r, "Attach", i)
        /\ \A i \in CallsOf(r, "attachWait") : OKBefore(r, "AddJobs", i)
        /\ \A i \in CallsOf(r, "WriteHeader101") : OKBefore(r, "attachWait", i)
        /\ \A i \in CallsOf(r, "Hijack") : OKBefore(r, "WriteHeader101", i)
        /\ req[r].status = "101" => OKCallsOf(r, "attachWait") # {}
        /\ Streaming(r) =>
             /\ OKCallsOf(r, "Hijack") # {}
             /\ req[r].status = "101"
        /\ CalledErr(r, "attachWait") =>
             /\ req[r].status = "error" /\ req[r].err = "attach wait failed"
             /\ ~Called(r, "WriteHeader101") /\ ~Streaming(r)
        /\ ~Called(r, "JSON") /\ req[r].status # "200"

\* C11 witness: an interactive request is streaming after the 101 status.
C11_Witness ==
    \E r \in Interactive :
        /\ req[r].status = "101" /\ req[r].cpUp = "copy" /\ req[r].cpDown = "copy"
        /\ OKCallsOf(r, "attachWait") # {}

\* The framed log requests that obtained their attach stream.
FramedLogs == {r \in Reqs : req[r].kind = "log" /\ req[r].sse /\ req[r].stream # 0}
\* The positions of the terminal marker in r's response body.
EofAt(r) == {i \in 1..Len(req[r].body) : req[r].body[i][1] = "eof"}
\* The complete frames of r's response body, by stream tag, in order.
FramesOf(r) ==
    LET b == req[r].body
        F[i \in 0..Len(b)] ==
            IF i = 0 THEN <<>>
            ELSE IF b[i][1] = "data" THEN Append(F[i - 1], b[i][2]) ELSE F[i - 1]
    IN  F[Len(b)]
\* jobLog has passed the write of the terminal marker.
LogFinished(r) == req[r].pc \in {"ret", "mwClose", "done"}

\* C12: a framed log request writes the terminal marker exactly once, after
\* every frame produced from the attach channel and only once the channel has
\* reached its natural end; nothing is written after the marker; a channel
\* that yields one stdout chunk and ends gives one stdout frame then the marker.
C12_EofOnceAtNaturalEnd ==
    \A r \in FramedLogs :
        LET st == sess[req[r].stream]
        IN  /\ Cardinality(EofAt(r)) <= 1
            /\ \A i \in EofAt(r) : i = Len(req[r].body)
            /\ EofAt(r) # {} =>
                 /\ st.data = <<>> /\ ~req[r].copyErr
                 /\ FramesOf(r) = st.yield
            /\ LogFinished(r) => EofAt(r) # {}
            /\ (LogFinished(r) /\ st.yield = <<"stdout">>) =>
                 req[r].body = << <<"data", "stdout">>, <<"eof", "">> >>

\* C13: a non-interactive run request that succeeds answers 200 with the
\* summary whose id is <hostID>-<jobID>, the host being the one selected from
\* the snapshot and submitted to and the job the one submitted, and whose
\* releaseID and cmd are those of the request; it dials no host and opens no
\* attach session.
C13_DetachedSummary ==
    \A r \in RunReqs \ Interactive :
        /\ ~Called(r, "DialHost") /\ ~Called(r, "Attach") /\ ~Called(r, "Hijack")
        /\ Owned(r) = {}
        /\ req[r].status = "200" =>
             /\ Cardinality(OKCallsOf(r, "AddJobs")) = 1
             /\ \A i \in OKCallsOf(r, "AddJobs") :
                  LET c == req[r].calls[i]
                  IN  /\ c.host = req[r].hostID /\ c.host \in req[r].snap
                      /\ c.job = req[r].jobID
                      /\ req[r].body =
                           <<[id |-> Composite(c.host, c.job),
                              releaseID |-> NewJob(r).ReleaseID,
                              cmd |-> NewJob(r).Cmd]>>
        /\ (req[r].pc = "done" /\ OKCallsOf(r, "AddJobs") # {}) => req[r].status = "200"

\* C13 witness: a finished non-interactive request answered 200 for a job on
\* host "b" of a two-host snapshot.
C13_Witness ==
    \E r \in RunReqs \ Interactive :
        /\ req[r].pc = "done" /\ req[r].status = "200"
        /\ req[r].snap = HostIDs /\ req[r].hostID = HostB
        /\ req[r].jobID \in jobsOn[HostB]

\* The sessions request r holds a reference to: its locals and deferred closes.
Refs(r) ==
    ({req[r].client, req[r].attachConn, req[r].conn, req[r].stream}
       \cup {req[r].defers[i] : i \in 1..Len(req[r].defers)}) \ {0}

\* C14: with requests running concurrently, a host dial or attach session is
\* opened, used and closed only by the request that acquired it, within that
\* request's lifetime: every session is used by its owner alone, closed at
\* most once and closed when its owner has finished, and a request refers
\* only to sessions it acquired itself.
C14_SessionsNotShared ==
    /\ \A s \in 1..Len(sess) :
         /\ sess[s].users = {sess[s].owner}
         /\ sess[s].closes <= 1
         /\ req[sess[s].owner].pc # "idle"
         /\ req[sess[s].owner].pc = "done" => sess[s].closes = 1
    /\ \A r \in Reqs : \A s \in Refs(r) : s \in 1..Len(sess) /\ sess[s].owner = r

\* C14 witness: an interactive run is streaming while a kill request holds its
\* own open dial to the same host.
C14_Witness ==
    \E r \in Reqs, q \in Reqs :
        /\ r # q /\ req[r].kind = "run" /\ Streaming(r) /\ req[r].pc = "join1"
        /\ req[q].kind = "kill" /\ req[q].pc = "ret"
        /\ req[r].client # 0 /\ req[q].client # 0 /\ req[r].client # req[q].client
        /\ sess[req[r].client].closes = 0 /\ sess[req[q].client].closes = 0
        /\ sess[req[r].client].host = sess[req[q].client].host

\* The jobs of the snapshot, as host position and job position, and those of app.
AllJobs == {p \in (1..Len(lhosts)) \X (1..MaxJobs + 1) : p[2] <= Len(lhosts[p[1]].Jobs)}
JobAt(p) == lhosts[p[1]].Jobs[p[2]]
JobsOfApp(app) == {p \in AllJobs : JobAt(p).app = app}

\* C15: for every snapshot, jobList returns exactly one summary for each job
\* whose app attribute is the app's ID and none for any other job; the
\* summary's id is <hostID>-<jobID> with the owning host's ID, its releaseID
\* is the job's release attribute, and its cmd is the job's cmd if the type
\* attribute is empty and is left empty otherwise.
C15_ListExactlyAppJobs ==
    (lres # <<>> /\ lres.status = "200") =>
        LET out == lres.jobs
            Is(i, p) == out[i].ID = Composite(lhosts[p[1]].ID, JobAt(p).ID)
        IN  /\ Len(out) = Cardinality(JobsOfApp(AppA))
            /\ \A p \in JobsOfApp(AppA) :
                 /\ Cardinality({i \in 1..Len(out) : Is(i, p)}) = 1
                 /\ \A i \in 1..Len(out) :
                      Is(i, p) =>
                        /\ out[i].ReleaseID = JobAt(p).release
                        /\ out[i].Type = JobAt(p).type
                        /\ (JobAt(p).type = "" => out[i].Cmd = JobAt(p).cmd)
                        /\ (JobAt(p).type # "" => out[i].Cmd = <<>>)
            /\ \A p \in AllJobs \ JobsOfApp(AppA) :
                 \A i \in 1..Len(out) : ~Is(i, p)

\* C15 witness: two hosts, one holding a typed job of the app and the other a
\* job of another app; one summary comes back, without cmd.
C15_Witness ==
    /\ lres # <<>> /\ lres.status = "200"
    /\ Len(lhosts) = 2 /\ Len(lres.jobs) = 1
    /\ \E p \in AllJobs : JobAt(p).app = AppB
    /\ \E p \in JobsOfApp(AppA) : JobAt(p).type = "web" /\ JobAt(p).cmd # <<>>
    /\ lres.jobs[1].Cmd = <<>>

\* Both peers of r's interactive session have ended their output.
BothEnded(r) ==
    /\ Streaming(r)
    /\ sess[req[r].conn].peerEOF /\ sess[req[r].attachConn].peerEOF
\* The copy tasks of r that have sent their completion signal.
Signalled(r) == {d \in Dirs : CpPc(r, d) = "exit"}

\* C16: an interactive session has exactly two copy tasks, a task that is
\* about to signal completion never finds the done channel full, and once both
\* the caller's transport and the attach channel have reached end-of-input,
\* both tasks signal completion and the handler returns.
C16_ProxyTerminates ==
    /\ [](\A r \in LiveReqs :
            /\ (req[r].cpUp = "none") = (req[r].cpDown = "none")
            /\ req[r].done <= Cardinality(Signalled(r))
            /\ \A d \in Dirs : CpPc(r, d) = "signal" => req[r].done < DoneCap)
    /\ \A r \in LiveReqs :
         BothEnded(r) ~> (req[r].pc = "done" /\ Signalled(r) = Dirs)

\* C16 witness: both tasks have signalled before the handler received
\* either signal, after both peers ended their output.
C16_Witness ==
    \E r \in LiveReqs :
        /\ BothEnded(r) /\ Signalled(r) = Dirs
        /\ req[r].done = DoneCap /\ req[r].pc = "join1"

\* Run request r failed while resolving its release, artifact or image.
ResolutionFailed(r) ==
    CalledErr(r, "releases.Get") \/ CalledErr(r, "artifacts.Get")
        \/ CalledErr(r, "DockerImage")
\* Run request r failed because the snapshot held no host.
NoHostsFound(r) == req[r].status = "error" /\ req[r].err = "no hosts found"

\* C17: a run request that fails while resolving the release, artifact or
\* image, or because the host set is empty, has called neither DialHost nor
\* Attach nor AddJobs, owns no session and has left no job on any host; after
\* a resolution failure ListHosts has not been called either.
C17_EarlyFailureTouchesNoHost ==
    \A r \in RunReqs :
        /\ (ResolutionFailed(r) \/ NoHostsFound(r)) =>
             /\ ~Called(r, "DialHost") /\ ~Called(r, "Attach")
             /\ ~Called(r, "AddJobs")
             /\ Owned(r) = {}
             /\ \A h \in HostIDs : req[r].jobID \notin jobsOn[h]
             /\ req[r].status = "error"
        /\ ResolutionFailed(r) => ~Called(r, "ListHosts") /\ req[r].snap = {}

\* C17 witness: one finished request failed on the image reference, another
\* on an empty host set, after its job ID had been drawn.
C17_Witness ==
    \E r \in RunReqs, q \in RunReqs :
        /\ req[r].pc = "done" /\ CalledErr(r, "DockerImage")
        /\ req[q].pc = "done" /\ NoHostsFound(q) /\ req[q].jobID # NoStr
        /\ Called(q, "ListHosts")

\* The Write of handle h is between its Lock and its return.
InWrite(h) == wr[h].pc \in {"prefix", "encode", "newline"}

\* C18: the multiplexer lock is held only for the span of one frame write:
\* it is held exactly while some Write is between Lock and return, by the
\* handle of that Write, so it is free after every return, failed part-way or
\* not; and a Write waiting for the lock always gets it.
C18_LockSpansOneWrite ==
    /\ [](/\ (mu = "free") = (\A h \in Handles : ~InWrite(h))
          /\ \A h \in Handles : InWrite(h) => mu = h)
    /\ \A h \in Handles : (wr[h].pc = "lock") ~> InWrite(h)

\* C18 witness: a Write failed after its prefix was written, a Write on the
\* other handle later completed a frame, and the lock is free.
C18_Witness ==
    \E h \in Handles, g \in Handles, i \in 1..Len(sink), k \in 1..Len(sink) :
        /\ h # g /\ i < k
        /\ sink[i].part = "prefix" /\ sink[i].by = h
        /\ sink[i + 1].by = g
        /\ wr[h].ret # <<>> /\ wr[h].ret[sink[i].call] = "err"
        /\ sink[k].part = "newline" /\ sink[k].by = g
        /\ wr[g].ret # <<>> /\ wr[g].ret[sink[k].call] = "ok"
        /\ mu = "free"

\* C19: a run request calls AddJobs at most once, for one job on one host:
\* the host selected from the snapshot and the job the request built; in an
\* interactive request that host is the host dialed for the attach and the
\* job's ID is the ID named in the attach request.
C19_OneJobOneHost ==
    \A r \in RunReqs :
        /\ Cardinality(CallsOf(r, "AddJobs")) <= 1
        /\ \A h \in HostIDs \ {req[r].hostID} : req[r].jobID \notin jobsOn[h]
        /\ \A i \in CallsOf(r, "AddJobs") :
             LET c == req[r].calls[i]
             IN  /\ c.host = req[r].hostID /\ c.host \in req[r].snap
                 /\ c.job = req[r].jobID /\ c.job # NoStr
                 /\ req[r].attach =>
                      /\ \E k \in OKCallsOf(r, "DialHost") :
                           /\ k < i /\ req[r].calls[k].host = c.host
                           /\ sess[req[r].calls[k].sid].host = c.host
                      /\ \E a \in OKCallsOf(r, "Attach") :
                           /\ a < i /\ req[r].calls[a].job = c.job
                           /\ req[r].calls[a].host = c.host
                           /\ sess[req[r].calls[a].sid].job = c.job

\* C19 witness: an interactive request on a two-host snapshot has submitted
\* its job to host "b", the host it dialed, and is streaming.
C19_Witness ==
    \E r \in Interactive :
        /\ req[r].snap = HostIDs /\ req[r].hostID = HostB
        /\ OKCallsOf(r, "AddJobs") # {} /\ req[r].jobID \in jobsOn[HostB]
        /\ sess[req[r].client].host = HostB
        /\ Streaming(r)

\* Session s has been closed.
Closed(s) == sess[s].closes > 0

\* C20: a request releases its resources in the reverse of the order it
\* acquired them (sessions are numbered in order of acquisition): in runJob
\* the hijacked transport before the attach channel before the host dial, in
\* the log route the attach stream before the host dial; so no attach channel
\* or stream is still open once the host dial it came from has been closed.
C20_ReverseRelease ==
    \A r \in Reqs :
        /\ \A i \in CallsOf(r, "Close"), k \in CallsOf(r, "Close") :
             i < k => req[r].calls[i].sid > req[r].calls[k].sid
        /\ (req[r].client # 0 /\ Closed(req[r].client)) =>
             /\ req[r].attachConn # 0 => Closed(req[r].attachConn)
             /\ req[r].stream # 0 => Closed(req[r].stream)
             /\ req[r].conn # 0 => Closed(req[r].conn)
        /\ (req[r].attachConn # 0 /\ Closed(req[r].attachConn)) =>
             (req[r].conn # 0 => Closed(req[r].conn))

\* C20 witness: an interactive run has closed its transport, attach channel
\* and dial, and a log request its stream and dial.
C20_Witness ==
    \E r \in Interactive, q \in Reqs :
        /\ req[r].pc = "done" /\ req[r].conn # 0
        /\ Cardinality(CallsOf(r, "Close")) = 3
        /\ req[q].kind = "log" /\ req[q].pc = "done" /\ req[q].stream # 0
        /\ Cardinality(CallsOf(q, "Close")) = 2

====
